---- MODULE Spec2Model ----
(***************************************************************************)
(* Model of freecad.trails: the curve tracker (CurveTracker) of            *)
(* project/trackers/curve_tracker.py, its input handlers, its curve        *)
(* solving orchestration (update / _generate_spiral / _generate_arc) and   *)
(* its drag / validation hooks.                                            *)
(*                                                                         *)
(* Geometry is one-dimensional: a FreeCAD Vector is an integer coordinate, *)
(* sub / add / multiply / distanceToPoint are the integer operations.  All *)
(* coordinates are even, so that distance / 2.0 is an integer.             *)
(* A node (what NodeTracker.get() answers) is a record of its coordinate   *)
(* and its is_end_node flag.                                               *)
(***************************************************************************)
EXTENDS Integers, Sequences, FiniteSets, TLC

VARIABLES
    mouse,          \* self.mouse.button1: [pressed, dragging]
    callbacks,      \* self.callbacks: the event types with a registered callback
    node_state,     \* self.trackers['Nodes'][i].state, i in 0..2
    state,          \* self.state
    user_dragging,  \* self.user_dragging
    is_valid,       \* self.is_valid
    drag,           \* self.drag (DragState)
    curve,          \* self.curve
    pi_nodes,       \* self.pi_nodes[i].get(), i in 0..2
    styles,         \* style token of the curve wire tracker of each chain curve
    last,           \* history: the kind of the last step
    calls,          \* history: drag handlers invoked while handling the last event
    snap,           \* history: curve and pi_nodes when start_drag was last invoked
    solved,         \* history: what spiral.solve_unk_length last returned
    checked,        \* history: the curve list _validate_curve was last given
    asked,          \* history: the dictionary the solver was last given
    affected,       \* history: the affected curve indices of the last validator run
    styled,         \* history: the chain curves the last validator run set a style on
    view_cb,        \* the view's table: event types with a callback of this tracker
    removed,        \* history: removeEventCallback calls of this tracker, per event type
    sib,            \* the other curve trackers on the view: [user_dragging, registered]
    strained,       \* history: a motion sample of the drag found the chain infeasible
    swap,           \* the Swap Edge command of EditSurface.py and the surface it edits
    addpt,          \* the Add Point command of EditSurface.py
    splitter,       \* the sprite splitter task and its document
    wire,           \* the wire tracker of the commands package
    marker          \* a marker of trackers2

vars      == <<mouse, callbacks, node_state, state, user_dragging, is_valid, drag,
               curve, pi_nodes, styles, last, calls, snap, solved, checked,
               asked, affected, styled, view_cb, removed, sib, strained, swap,
               addpt, splitter, wire, marker>>

\* what the handlers of the curve tracker leave alone: the other trackers
\* of the view and the other commands
apart == <<sib, swap, addpt, splitter, wire, marker>>

\* the curve tracker's attributes and history and the other trackers of the
\* view, the mouse state apart
held == <<callbacks, node_state, state, user_dragging, is_valid, drag,
          curve, pi_nodes, styles, last, calls, snap, solved, checked,
          asked, affected, styled, view_cb, removed, sib, strained>>

\* the curve tracker, its history and the other trackers of the view; mouse
\* is the one MouseState every handler of the workbench reads and updates
tracker == <<mouse, held>>

-----------------------------------------------------------------------------
(* Bounds *)

\* coordinates are 0, 2, .., 2 * MaxCoord
MaxCoord == 2
\* radii are 1 .. MaxRadius
MaxRadius == 2
\* tangent lengths given to the validator are 0 .. MaxTangent
MaxTangent == 2
\* a view holds this tracker and MaxSiblings others
MaxSiblings == 2
\* the surface of the Swap Edge command is a strip of MaxFacets triangles
MaxFacets == 3
\* a command is activated up to MaxActivations times without an escape
MaxActivations == 2
\* the pick list of the Swap Edge command is followed up to MaxPicks entries
MaxPicks == 3
\* up to MaxInserts vertices are inserted in the surface
MaxInserts == 2
\* the view delivers up to MaxPresses button-1 presses to the commands, up
\* to MaxJointPresses when both commands are followed together
MaxPresses == 4
MaxJointPresses == 2
\* the sprite splitter loads up to MaxLoads files
MaxLoads == 3
\* a wire is updated with up to MaxPoints points
MaxPoints == 2
\* a wire tracker creates up to MaxTrackers edit trackers in all
MaxTrackers == 6
\* a marker is updated with a list of up to MaxArgs values
MaxArgs == 2

Coords == {2 * k : k \in 0..MaxCoord}
Radii  == 1..MaxRadius

\* math.inf
Inf == 999999

SelStates == {"UNSELECTED", "PARTIAL", "SELECTED"}
NodeIdx   == 0..2

-----------------------------------------------------------------------------
(* Vectors and nodes *)

Abs(x) == IF x < 0 THEN -x ELSE x

Pt(p, e) == [pos |-> p, is_end_node |-> e]

\* a Python list of three, indexed from 0
List3(a, b, c) == [i \in 0..2 |-> IF i = 0 THEN a ELSE IF i = 1 THEN b ELSE c]

\* Vector.distanceToPoint
distanceToPoint(a, b) == Abs(a.pos - b.pos)

-----------------------------------------------------------------------------
(* Curve records *)

\* A curve dictionary.  A key the dictionary does not hold is 0 (a radius, a
\* length, a bearing), "" (the type) or NoPt (a point).
NoPt == Pt(0, FALSE)

NoCurve ==
    [Type |-> "", PI |-> NoPt, Start |-> NoPt, End |-> NoPt,
     Radius |-> 0, StartRadius |-> 0, EndRadius |-> 0,
     TanShort |-> 0, TanLong |-> 0, Tangent |-> 0,
     BearingIn |-> 0, BearingOut |-> 0]

-----------------------------------------------------------------------------
(* Geometry kernel: support.get_bearing, arc.get_parameters,               *)
(* spiral.solve_unk_length.  On the line a bearing is 0 (towards larger    *)
(* coordinates) or 180.                                                     *)

get_bearing(v) == IF v >= 0 THEN 0 ELSE 180

Dir(bearing) == IF bearing = 0 THEN 1 ELSE -1

\* arc.get_parameters: always answers an arc; the tangent grows with the
\* radius and with the deflection between the two bearings.
arc_get_parameters(c) ==
    LET delta   == Abs(c.BearingOut - c.BearingIn)
        tangent == (c.Radius * (180 + delta)) \div 180
    IN  [c EXCEPT !.Type = "Arc",
                  !.Tangent = tangent,
                  !.Start = Pt(c.PI.pos - Dir(c.BearingIn) * tangent, FALSE),
                  !.End = Pt(c.PI.pos + Dir(c.BearingOut) * tangent, FALSE)]

\* the radius a spiral dictionary is solved for
KnownRadius(c) == IF c.EndRadius # 0 THEN c.EndRadius ELSE c.StartRadius

\* spiral.solve_unk_length: answers the dictionary it was given with the two
\* tangents filled in; they are non-positive when the radius does not fit
\* between the PI and the start / end point.
solve_unk_length(c) ==
    [c EXCEPT !.Type = "Spiral",
              !.TanShort = distanceToPoint(c.PI, c.Start) - KnownRadius(c),
              !.TanLong = distanceToPoint(c.End, c.PI) - KnownRadius(c)]

-----------------------------------------------------------------------------
(* CurveTracker: solving *)

\* _pi.sub(Vector(_pi.sub(_start)).multiply(_start.distanceToPoint(_pi) / 2.0))
HalfStart(pi, start) ==
    Pt(pi.pos - (pi.pos - start.pos) * (distanceToPoint(start, pi) \div 2), FALSE)

\* _pi.add(Vector(_end.sub(_pi)).multiply(_end.distanceToPoint(_pi) / 2.0))
HalfEnd(pi, end) ==
    Pt(pi.pos + (end.pos - pi.pos) * (distanceToPoint(end, pi) \div 2), FALSE)

\* faulty variant: with the end radius known the start is read from the stored curve,
\* so that each update works on the start the one before it produced
spiral_input_stored_start(cv, nodes) ==
    LET pi == nodes[1]
    IN  IF cv.StartRadius = 0 \/ cv.StartRadius = Inf
        THEN LET start0 == cv.Start
                 start  == IF nodes[0].is_end_node THEN HalfStart(pi, start0)
                                                   ELSE start0
             IN  [NoCurve EXCEPT !.PI = pi, !.Start = start, !.End = cv.End,
                                 !.EndRadius = cv.EndRadius]
        ELSE LET start == cv.Start
                 end0  == nodes[2]
                 end   == IF start.is_end_node THEN HalfEnd(pi, end0) ELSE end0
             IN  [NoCurve EXCEPT !.PI = pi, !.Start = start, !.End = end,
                                 !.StartRadius = cv.StartRadius]

\* faulty variant: the stored StartRadius is handed over next to the EndRadius
spiral_input_both_radii(cv, nodes) ==
    LET pi == nodes[1]
    IN  IF cv.StartRadius = 0 \/ cv.StartRadius = Inf
        THEN LET start0 == nodes[0]
                 start  == IF start0.is_end_node THEN HalfStart(pi, start0)
                                                 ELSE start0
             IN  [NoCurve EXCEPT !.PI = pi, !.Start = start, !.End = cv.End,
                                 !.EndRadius = cv.EndRadius,
                                 !.StartRadius = cv.StartRadius]
        ELSE LET start == cv.Start
                 end0  == nodes[2]
                 end   == IF start.is_end_node THEN HalfEnd(pi, end0) ELSE end0
             IN  [NoCurve EXCEPT !.PI = pi, !.Start = start, !.End = end,
                                 !.StartRadius = cv.StartRadius]

\* the dictionary _generate_spiral hands to spiral.solve_unk_length
spiral_input(cv, nodes) ==
    LET pi == nodes[1]
    IN  IF cv.StartRadius = 0 \/ cv.StartRadius = Inf
        THEN LET start0 == nodes[0]
                 start  == IF start0.is_end_node THEN HalfStart(pi, start0)
                                                 ELSE start0
             IN  [NoCurve EXCEPT !.PI = pi, !.Start = start, !.End = cv.End,
                                 !.EndRadius = cv.EndRadius]
        ELSE LET start == cv.Start
                 end0  == nodes[2]
                 end   == IF start.is_end_node THEN HalfEnd(pi, end0) ELSE end0
             IN  [NoCurve EXCEPT !.PI = pi, !.Start = start, !.End = end,
                                 !.StartRadius = cv.StartRadius]

\* faulty variant: the answer is discarded only when both tangents are non-positive
Infeasible_both(c) == c.TanShort <= 0 /\ c.TanLong <= 0

\* the feasibility test of _generate_spiral on the solver's answer
Infeasible(c) == c.TanShort <= 0 \/ c.TanLong <= 0

\* faulty variant: _generate_spiral installs the solver's answer as it comes
generate_spiral_unchecked(cv, nodes) == solve_unk_length(spiral_input(cv, nodes))

\* CurveTracker._generate_spiral
generate_spiral(cv, nodes) ==
    LET c == solve_unk_length(spiral_input(cv, nodes))
    IN  IF Infeasible(c) THEN cv ELSE c

\* faulty variant: the incoming bearing is taken from start - pi
arc_input_reversed(cv, nodes) ==
    [NoCurve EXCEPT !.BearingIn = get_bearing(nodes[0].pos - nodes[1].pos),
                    !.BearingOut = get_bearing(nodes[2].pos - nodes[1].pos),
                    !.PI = nodes[1],
                    !.Radius = cv.Radius]

\* the dictionary _generate_arc hands to arc.get_parameters
arc_input(cv, nodes) ==
    [NoCurve EXCEPT !.BearingIn = get_bearing(nodes[1].pos - nodes[0].pos),
                    !.BearingOut = get_bearing(nodes[2].pos - nodes[1].pos),
                    !.PI = nodes[1],
                    !.Radius = cv.Radius]

\* CurveTracker._generate_arc
generate_arc(cv, nodes) == arc_get_parameters(arc_input(cv, nodes))

\* faulty variant: update that leaves a record alone unless its Type is
\* 'Spiral' or 'Arc'
updated_curve_known_tags(cv, nodes) ==
    IF cv.Type = "Spiral" THEN generate_spiral(cv, nodes)
    ELSE IF cv.Type = "Arc" THEN generate_arc(cv, nodes)
    ELSE cv

\* the curve CurveTracker.update installs
updated_curve(cv, nodes) ==
    IF cv.Type = "Spiral" THEN generate_spiral(cv, nodes)
                          ELSE generate_arc(cv, nodes)

-----------------------------------------------------------------------------
(* Collaborators of the tracker *)

\* MouseState.update for button 1: a button-down presses it, pointer motion
\* while it is pressed makes it dragging, a button-up releases it.
mouse_update(m, arg) ==
    IF arg.Type = "SoLocation2Event"
    THEN [m EXCEPT !.dragging = m.pressed]
    ELSE IF arg.Type = "SoMouseButtonEvent" /\ arg.Button = "BUTTON1"
    THEN [pressed |-> arg.State = "DOWN", dragging |-> FALSE]
    ELSE m

\* DragState() as constructed, which is also what DragState.reset() leaves
ResetDrag ==
    [start |-> NoPt, has_start |-> FALSE, nodes |-> <<>>, node_idx |-> <<>>,
     curves |-> <<>>, pi |-> <<>>, tracker_state |-> <<>>, multi |-> FALSE]

\* the state of a NodeTracker as constructed
FreshNodes == [i \in NodeIdx |-> "UNSELECTED"]

\* the curve wire trackers the validator styles, one per chain curve
ChainIdx == 0..2
FreshStyles == [i \in ChainIdx |-> "DEFAULT"]

-----------------------------------------------------------------------------
(* The chain as the drag's end finds it: the one curve of the tracker      *)
(* between the two fixed anchors pi_nodes[0] and pi_nodes[2].              *)

\* spiral.get_ordered_tangents: (tangent at the start, tangent at the end);
\* the long tangent lies on the side of the infinite radius
get_ordered_tangents(c) ==
    IF c.StartRadius = 0 \/ c.StartRadius = Inf
    THEN List3(c.TanLong, c.TanShort, 0)
    ELSE List3(c.TanShort, c.TanLong, 0)

StartTangent(c) == IF c.Type = "Spiral" THEN get_ordered_tangents(c)[0] ELSE c.Tangent
EndTangent(c)   == IF c.Type = "Spiral" THEN get_ordered_tangents(c)[1] ELSE c.Tangent

\* a tangent run of the curve does not fit between its PI and the anchor
ChainInfeasible ==
    \/ StartTangent(curve) > distanceToPoint(curve.PI, pi_nodes[0])
    \/ EndTangent(curve) > distanceToPoint(curve.PI, pi_nodes[2])

-----------------------------------------------------------------------------
(* CurveTracker: input handling *)

\* the callback table the constructor fills
InitCallbacks == {"SoLocation2Event", "SoMouseButtonEvent"}

\* faulty variant: a PARTIAL node tracker counts as a selected one
Aggregate_counts_partial(ns) ==
    LET states == [i \in NodeIdx |-> ns[i] # "UNSELECTED"]
    IN  IF \A i \in NodeIdx : states[i] THEN "SELECTED"
        ELSE IF \E i \in NodeIdx : states[i] THEN "PARTIAL"
        ELSE "UNSELECTED"

\* the aggregate of button_event over trackers['Nodes']
Aggregate(ns) ==
    LET states == [i \in NodeIdx |-> ns[i] = "SELECTED"]
    IN  IF \A i \in NodeIdx : states[i] THEN "SELECTED"
        ELSE IF \E i \in NodeIdx : states[i] THEN "PARTIAL"
        ELSE "UNSELECTED"

\* CurveTracker.start_drag: the body is `pass`
start_drag == UNCHANGED <<drag, is_valid, curve, pi_nodes, styles>>

\* CurveTracker.on_drag: the body is `pass`
on_drag(do_rotation, modify) == UNCHANGED <<drag, is_valid, curve, pi_nodes, styles>>

\* CurveTracker.end_drag: the body is `pass`
end_drag == UNCHANGED <<drag, is_valid, curve, pi_nodes, styles>>

\* faulty variant: motion feeds a drag only while a node tracker is SELECTED
MotionDrags_selected(m) ==
    m.dragging /\ \E i \in NodeIdx : node_state[i] = "SELECTED"

\* the test of mouse_event that a drag is under way
MotionDrags(m) == m.dragging

\* faulty variant: mouse_event recomputes the aggregate state as button_event does
mouse_event_aggregates ==
    /\ "SoLocation2Event" \in view_cb
    /\ \E ctrl \in BOOLEAN, shift \in BOOLEAN :
         LET m == mouse_update(mouse, [Type |-> "SoLocation2Event"])
         IN  /\ mouse' = m
             /\ IF MotionDrags(m)
                THEN IF user_dragging
                     THEN /\ on_drag(ctrl, shift)
                          /\ calls' = <<"on_drag">>
                          /\ strained' = (strained \/ ChainInfeasible')
                          /\ UNCHANGED <<user_dragging, snap>>
                     ELSE /\ start_drag
                          /\ user_dragging' = TRUE
                          /\ calls' = <<"start_drag">>
                          /\ snap' = [curve |-> curve, pi_nodes |-> pi_nodes]
                          /\ strained' = FALSE
                ELSE /\ calls' = <<>>
                     /\ UNCHANGED <<user_dragging, snap, drag, is_valid, curve,
                                    pi_nodes, styles, strained>>
    /\ last' = "SoLocation2Event"
    /\ state' = Aggregate(node_state)
    /\ UNCHANGED <<callbacks, node_state, solved, checked>>
    /\ UNCHANGED <<asked, affected, styled, view_cb, removed>>

\* CurveTracker.mouse_event, the SoLocation2Event callback
mouse_event ==
    /\ "SoLocation2Event" \in view_cb
    /\ \E ctrl \in BOOLEAN, shift \in BOOLEAN :
         LET m == mouse_update(mouse, [Type |-> "SoLocation2Event"])
         IN  /\ mouse' = m
             /\ IF MotionDrags(m)
                THEN IF user_dragging
                     THEN /\ on_drag(ctrl, shift)
                          /\ calls' = <<"on_drag">>
                          /\ strained' = (strained \/ ChainInfeasible')
                          /\ UNCHANGED <<user_dragging, snap>>
                     ELSE /\ start_drag
                          /\ user_dragging' = TRUE
                          /\ calls' = <<"start_drag">>
                          /\ snap' = [curve |-> curve, pi_nodes |-> pi_nodes]
                          /\ strained' = FALSE
                ELSE /\ calls' = <<>>
                     /\ UNCHANGED <<user_dragging, snap, drag, is_valid, curve,
                                    pi_nodes, styles, strained>>
    /\ last' = "SoLocation2Event"
    /\ UNCHANGED <<callbacks, node_state, state, solved, checked>>
    /\ UNCHANGED <<asked, affected, styled, view_cb, removed>>

\* faulty variant: the drag is taken to be over whenever button 1 is not
\* dragging, a drag begun or not
DragOver_unstarted(dragging, m) == ~m.dragging

\* the test of button_event that the drag is over
DragOver(dragging, m) == dragging /\ ~m.dragging

\* CurveTracker.button_event, the SoMouseButtonEvent callback
button_event ==
    /\ "SoMouseButtonEvent" \in view_cb
    /\ \E b \in {"BUTTON1", "BUTTON2"}, st \in {"DOWN", "UP"} :
         LET m == mouse_update(mouse, [Type |-> "SoMouseButtonEvent",
                                       Button |-> b, State |-> st])
         IN  \* a button goes down when it is up and up when it is down
             /\ b = "BUTTON1" => (st = "DOWN" <=> ~mouse.pressed)
             /\ mouse' = m
             /\ state' = Aggregate(node_state)
             /\ IF DragOver(user_dragging, m)
                THEN /\ end_drag
                     /\ user_dragging' = FALSE
                     /\ calls' = <<"end_drag">>
                ELSE /\ calls' = <<>>
                     /\ UNCHANGED <<user_dragging, drag, is_valid, curve,
                                    pi_nodes, styles>>
    /\ last' = "SoMouseButtonEvent"
    /\ UNCHANGED <<callbacks, node_state, snap, solved, checked>>
    /\ UNCHANGED <<asked, affected, styled, view_cb, removed, strained>>

\* A key event: the tracker registers no callback for SoKeyboardEvent, the
\* view delivers it to nobody.
key_event ==
    /\ last' = "SoKeyboardEvent"
    /\ calls' = <<>>
    /\ UNCHANGED <<mouse, callbacks, node_state, state, user_dragging, is_valid,
                   drag, curve, pi_nodes, styles, snap, solved, checked>>
    /\ UNCHANGED <<asked, affected, styled, view_cb, removed, strained>>

\* the selection collaborator changes the state of one node tracker
select_node ==
    /\ \E i \in NodeIdx, s \in SelStates :
         /\ node_state[i] # s
         /\ node_state' = [node_state EXCEPT ![i] = s]
    /\ last' = "select"
    /\ calls' = <<>>
    /\ UNCHANGED <<mouse, callbacks, state, user_dragging, is_valid, drag,
                   curve, pi_nodes, styles, snap, solved, checked>>
    /\ UNCHANGED <<asked, affected, styled, view_cb, removed, strained>>

\* the owner of a PI node moves it
move_node(i) ==
    /\ \E p \in Coords :
         /\ pi_nodes[i].pos # p
         /\ pi_nodes' = [pi_nodes EXCEPT ![i].pos = p]
    /\ last' = "move"
    /\ calls' = <<>>
    /\ UNCHANGED <<mouse, callbacks, node_state, state, user_dragging, is_valid,
                   drag, curve, styles, snap, solved, checked>>
    /\ UNCHANGED <<asked, affected, styled, view_cb, removed, strained>>

\* CurveTracker.build_trackers: three new node trackers, unselected as
\* constructed, and new wire trackers take the place of those the tracker
\* had; the curve is read, not solved
build_trackers ==
    /\ node_state' = FreshNodes
    /\ last' = "build_trackers"
    /\ calls' = <<>>
    /\ UNCHANGED <<mouse, callbacks, state, user_dragging, is_valid, drag,
                   curve, pi_nodes, styles, snap, solved, checked>>
    /\ UNCHANGED <<asked, affected, styled, view_cb, removed, strained>>

\* the last step was update(); "update_again" when the step before it was too
IsUpdate(l) == l \in {"update", "update_again"}

\* _generate_arc reads self.curve['Radius']: a record without one ends
\* update() with a KeyError
LacksRadius(cv) == cv.Type # "Spiral" /\ cv.Radius = 0

\* CurveTracker.update: solve, then build_trackers() makes new node trackers
update ==
    /\ IF LacksRadius(curve)
       THEN /\ last' = "update_failed"
            /\ UNCHANGED <<curve, solved, asked, node_state>>
       ELSE /\ curve' = updated_curve(curve, pi_nodes)
            /\ solved' = IF curve.Type = "Spiral"
                         THEN solve_unk_length(spiral_input(curve, pi_nodes))
                         ELSE solved
            /\ asked' = IF curve.Type = "Spiral"
                        THEN spiral_input(curve, pi_nodes)
                        ELSE arc_input(curve, pi_nodes)
            /\ node_state' = FreshNodes
            /\ last' = IF IsUpdate(last) THEN "update_again" ELSE "update"
    /\ calls' = <<>>
    /\ UNCHANGED <<mouse, callbacks, state, user_dragging, is_valid, drag,
                   pi_nodes, styles, snap, checked>>
    /\ UNCHANGED <<affected, styled, view_cb, removed, strained>>

\* faulty variant: a tracker that stays out of a drag another tracker takes
sib_mouse_event_exclusive(t, m) == t

\* mouse_event of another CurveTracker registered with the same view, for its
\* user_dragging: start_drag() or on_drag() whenever button 1 is dragging
sib_mouse_event(t, m) ==
    IF t.registered /\ MotionDrags(m)
    THEN [t EXCEPT !.user_dragging = TRUE]
    ELSE t

\* button_event of the other tracker: end_drag() once button 1 is released
sib_button_event(t, m) ==
    IF t.registered /\ DragOver(t.user_dragging, m)
    THEN [t EXCEPT !.user_dragging = FALSE]
    ELSE t

\* the view hands a pointer-motion event to every registered callback
view_motion ==
    /\ mouse_event
    /\ sib' = [s \in DOMAIN sib |-> sib_mouse_event(sib[s], mouse')]
    /\ UNCHANGED <<swap, addpt, splitter, wire, marker>>

\* the view hands a pointer-button event to every registered callback
view_button ==
    /\ button_event
    /\ sib' = [s \in DOMAIN sib |-> sib_button_event(sib[s], mouse')]
    /\ UNCHANGED <<swap, addpt, splitter, wire, marker>>

\* finalize() of another tracker: its callbacks leave the view
sib_finalize(s) ==
    /\ sib[s].registered
    /\ sib' = [sib EXCEPT ![s].registered = FALSE]
    /\ last' = "sib_finalize"
    /\ UNCHANGED <<swap, addpt, splitter, wire, marker>>
    /\ calls' = <<>>
    /\ UNCHANGED <<mouse, callbacks, node_state, state, user_dragging, is_valid,
                   drag, curve, pi_nodes, styles, snap, solved, checked>>
    /\ UNCHANGED <<asked, affected, styled, view_cb, removed, strained>>

\* a finalize() call that ran to its end
IsFinalize(l) == l \in {"finalize", "finalize_again"}

\* faulty variant: finalize() that unregisters but keeps its callback table
finalize_keeps_table ==
    /\ IF callbacks # {}
       THEN /\ view_cb' = view_cb \ callbacks
            /\ removed' = [t \in InitCallbacks |->
                              IF t \in callbacks THEN removed[t] + 1
                                                 ELSE removed[t]]
       ELSE UNCHANGED <<view_cb, removed>>
    /\ last' = IF IsFinalize(last) THEN "finalize_again" ELSE "finalize"
    /\ calls' = <<>>
    /\ UNCHANGED <<mouse, callbacks, node_state, state, user_dragging, is_valid,
                   drag, curve, pi_nodes, styles, snap, solved, checked>>
    /\ UNCHANGED <<asked, affected, styled, strained>>

\* faulty variant: finalize() that clears its table without removing the
\* callbacks from the view
finalize_forgets_view ==
    /\ callbacks' = {}
    /\ last' = IF IsFinalize(last) THEN "finalize_again" ELSE "finalize"
    /\ calls' = <<>>
    /\ UNCHANGED <<mouse, node_state, state, user_dragging, is_valid,
                   drag, curve, pi_nodes, styles, snap, solved, checked>>
    /\ UNCHANGED <<asked, affected, styled, view_cb, removed, strained>>

\* CurveTracker.finalize(): the owned trackers are finalized and the scene
\* nodes removed (no state of the model), then every callback of the table is
\* removed from the view and the table cleared
finalize ==
    /\ IF callbacks # {}
       THEN /\ view_cb' = view_cb \ callbacks
            /\ removed' = [t \in InitCallbacks |->
                              IF t \in callbacks THEN removed[t] + 1
                                                 ELSE removed[t]]
            /\ callbacks' = {}
       ELSE UNCHANGED <<view_cb, removed, callbacks>>
    /\ last' = IF IsFinalize(last) THEN "finalize_again" ELSE "finalize"
    /\ calls' = <<>>
    /\ UNCHANGED <<mouse, node_state, state, user_dragging, is_valid,
                   drag, curve, pi_nodes, styles, snap, solved, checked>>
    /\ UNCHANGED <<asked, affected, styled, strained>>

\* CurveTracker.finalize() left by an exception of an owned tracker's
\* finalize() or of remove_node: the statements after it do not run
finalize_fails ==
    /\ last' = "finalize_failed"
    /\ calls' = <<>>
    /\ UNCHANGED <<mouse, callbacks, node_state, state, user_dragging, is_valid,
                   drag, curve, pi_nodes, styles, snap, solved, checked>>
    /\ UNCHANGED <<asked, affected, styled, view_cb, removed, strained>>

\* an arc curve as the validator reads it: its PI and its tangent length
ArcAt(p, t) == [NoCurve EXCEPT !.Type = "Arc", !.PI = Pt(p, FALSE), !.Tangent = t]

ValidatorCurves == {ArcAt(p, t) : p \in Coords, t \in 0..MaxTangent}

\* the curve lists a run is given: none, one or two curves
ValidatorInputs ==
    {<<>>}
    \cup {<<a>> : a \in ValidatorCurves}
    \cup {<<a, b>> : a \in ValidatorCurves, b \in ValidatorCurves}

\* the affected index ranges a drag over a chain of three curves can hold
\* (self.drag.curves in the commented-out body), one index per curve given
ValidatorRanges(n) ==
    {l \in {<<>>, <<0>>, <<1>>, <<2>>, <<0, 1>>, <<1, 2>>} : Len(l) = n}

\* CurveTracker._validate_curve(curves): the body is `pass`; no curve gets a
\* style and is_valid is not assigned
validate_curve ==
    /\ \E curves \in ValidatorInputs :
         \E idx \in ValidatorRanges(Len(curves)) :
            /\ checked' = curves
            /\ affected' = idx
    /\ styled' = {}
    /\ last' = "validate"
    /\ calls' = <<>>
    /\ UNCHANGED <<mouse, callbacks, node_state, state, user_dragging, is_valid,
                   drag, curve, pi_nodes, styles, snap, solved>>
    /\ UNCHANGED <<asked, view_cb, removed, strained>>

-----------------------------------------------------------------------------
(* EditSurface.py: the Swap Edge command.  A mesh is its facets by index,   *)
(* a facet the set of its three points.                                     *)

\* a strip of triangles over the points 1 .. MaxFacets + 2
StripMesh == [f \in 0..(MaxFacets - 1) |-> {f + 1, f + 2, f + 3}]

FacetIdx(mesh) == DOMAIN mesh

\* Mesh.swapEdge(i, j) can be applied: two facets with a common edge
Swappable(mesh, i, j) ==
    /\ i \in FacetIdx(mesh) /\ j \in FacetIdx(mesh)
    /\ i # j
    /\ Cardinality(mesh[i] \cap mesh[j]) = 2

Lowest(S) == CHOOSE x \in S : \A y \in S : x <= y

\* Mesh.swapEdge(i, j): the common edge is replaced by the edge between the
\* two opposite points
swapEdge(mesh, i, j) ==
    LET shared == mesh[i] \cap mesh[j]
        tips   == (mesh[i] \cup mesh[j]) \ shared
        lo     == Lowest(shared)
    IN  [mesh EXCEPT ![i] = tips \cup {lo},
                     ![j] = tips \cup (shared \ {lo})]

\* faulty variant: a swap that cannot be applied leaves a mesh without the
\* first picked facet
swapped_mesh_drops(mesh, i, j) ==
    IF Swappable(mesh, i, j) THEN swapEdge(mesh, i, j)
                             ELSE [mesh EXCEPT ![i] = {}]

\* the mesh SwapEdge assigns to surface.Mesh: the copy after the try block,
\* untouched when swapEdge raised
swapped_mesh(mesh, i, j) ==
    IF Swappable(mesh, i, j) THEN swapEdge(mesh, i, j) ELSE mesh

Highest(S) == CHOOSE x \in S : \A y \in S : y <= x

\* the views a command can meet: `view`, the active view read once when
\* the module is imported (line 29), and a view opened since, which
\* FreeCADGui.ActiveDocument.ActiveView answers when it is the active one
Views == {"view", "other"}

\* view.addEventCallbackPivy(type, callback): the view keeps one more
\* callback, after those it has, and answers its handle; an earlier
\* registration stays.  registered holds the handles of every callback
\* registered; a handle is the callback's place in the order of registration
addEventCallbackPivy(registered) ==
    IF registered = {} THEN 1 ELSE Highest(registered) + 1

\* view.removeEventCallbackPivy(type, handle): the callback of this handle
\* leaves the view, any other stays
removeEventCallbackPivy(registered, handle) == registered \ {handle}

\* the Swap Edge command as constructed, over the selected surface; picks,
\* attempted, latest and prev are history: the face picks since Activated
\* modulo 2, whether the last event reached the swap (line 270), whether the
\* swap was called with the last two faces the user picked, and the last
\* face picked (-1: none); pair holds the faces of the swap while an event
\* is handled; presses counts the button-1 presses the views have delivered
\* to the commands.  registered holds the handles of the command's
\* callbacks, away those of them that are registered with the other view
SwapCommand ==
    [registered |-> {}, away |-> {}, MC |-> 0, FaceIndexes |-> <<>>,
     Mesh |-> StripMesh,
     message |-> FALSE, outcome |-> "none",
     picks |-> 0, attempted |-> FALSE, pair |-> <<>>, latest |-> FALSE,
     prev |-> -1, presses |-> 0]

\* the Add Point command as constructed; inserted is history: the
\* insertVertex calls of the last event
AddPointCommand == [registered |-> {}, MC |-> 0, inserted |-> 0, outcome |-> "none"]

\* SwapEdge.Activated: the pick list is emptied and one more callback
\* registered with the view that is active at that moment (line 236);
\* self.MC keeps the handle of this registration only
Activated ==
    /\ \E active \in Views :
         LET h == addEventCallbackPivy(swap.registered \cup addpt.registered)
         IN  swap' = [swap EXCEPT
                        !.registered = @ \cup {h},
                        !.away = IF active = "other" THEN @ \cup {h} ELSE @,
                        !.MC = h,
                        !.FaceIndexes = <<>>,
                        !.message = FALSE, !.outcome = "activated",
                        !.picks = 0, !.attempted = FALSE,
                        !.pair = <<>>, !.latest = FALSE, !.prev = -1]
    /\ UNCHANGED tracker
    /\ UNCHANGED <<addpt, splitter, wire, marker>>

\* AddPoint.Activated: one more callback registered with `view` (line 68);
\* self.MC keeps the handle of this registration only
add_Activated ==
    /\ LET h == addEventCallbackPivy(swap.registered \cup addpt.registered)
       IN  addpt' = [addpt EXCEPT !.registered = @ \cup {h}, !.MC = h,
                                  !.inserted = 0, !.outcome = "activated"]
    /\ UNCHANGED tracker
    /\ UNCHANGED <<swap, splitter, wire, marker>>

\* SwapEdge.SwapEdge(cb), one run of the callback on a button-1 press.
\* picked is the index of the facet under the pointer, or -1 when no facet
\* is picked; selected is whether the selection holds a surface: with none,
\* FreeCADGui.Selection.getSelection()[-1] raises IndexError
SwapEdge_button1(s, picked, selected) ==
    IF picked = -1
    THEN [s EXCEPT !.outcome = "no_facet"]
    ELSE LET faces == Append(s.FaceIndexes, picked)
         IN  IF Len(faces) = 2
             THEN IF ~selected
                  THEN [s EXCEPT !.FaceIndexes = faces, !.attempted = TRUE,
                                 !.pair = faces, !.outcome = "raised"]
                  ELSE [s EXCEPT
                          !.Mesh = swapped_mesh(s.Mesh, faces[1], faces[2]),
                          !.FaceIndexes = <<>>,
                          !.attempted = TRUE,
                          !.pair = faces,
                          !.message =
                             s.message \/ ~Swappable(s.Mesh, faces[1], faces[2]),
                          !.outcome =
                             IF Swappable(s.Mesh, faces[1], faces[2])
                             THEN "swapped" ELSE "unswappable"]
             ELSE [s EXCEPT !.FaceIndexes = faces, !.outcome = "picked"]

\* Mesh.insertVertex(index, point): the facet is split in three around the
\* new point; the facet keeps its index, the two others are appended
insertVertex(mesh, index) ==
    LET n    == Highest(UNION {mesh[f] : f \in DOMAIN mesh}) + 1
        a    == Lowest(mesh[index])
        c    == Highest(mesh[index])
        k    == Cardinality(DOMAIN mesh)
    IN  [f \in 0..(k + 1) |->
            IF f = index THEN (mesh[index] \ {c}) \cup {n}
            ELSE IF f = k THEN (mesh[index] \ {a}) \cup {n}
            ELSE IF f = k + 1 THEN {a, c, n}
            ELSE mesh[f]]

\* AddPoint.add_point(cb), one run of the callback on a button-1 press, on
\* the two commands c and the mesh of the selected surface (c.swap.Mesh).
\* info is whether view.getObjectInfo answers an object: on None the
\* subscript of line 101 raises TypeError; with nothing selected line 103
\* raises IndexError; else the copy with the vertex becomes the mesh
add_point_button1(c, picked, info, selected) ==
    IF picked = -1 THEN [c EXCEPT !.addpt.outcome = "no_facet"]
    ELSE IF ~info THEN [c EXCEPT !.addpt.outcome = "TypeError"]
    ELSE IF ~selected THEN [c EXCEPT !.addpt.outcome = "IndexError"]
    ELSE [c EXCEPT !.swap.Mesh = insertVertex(@, picked),
                   !.addpt.inserted = @ + 1,
                   !.addpt.outcome = "inserted"]

\* the view hands one button-1 press to the callbacks todo, in the order of
\* their registration; each run works on what the run before left
RECURSIVE SoButtonEvent_delivered(_, _, _, _, _)
SoButtonEvent_delivered(c, todo, picked, info, selected) ==
    IF todo = {} THEN c
    ELSE LET h == Lowest(todo)
         IN  SoButtonEvent_delivered(
                IF h \in c.swap.registered
                THEN [c EXCEPT !.swap = SwapEdge_button1(@, picked, selected)]
                ELSE add_point_button1(c, picked, info, selected),
                todo \ {h}, picked, info, selected)

\* the callbacks of the Swap Edge command that the view v holds
SwapOn(v) ==
    IF v = "view" THEN swap.registered \ swap.away ELSE swap.away

\* the callbacks of the Add Point command that the view v holds
AddOn(v) == IF v = "view" THEN addpt.registered ELSE {}

\* an escape key press on the view v: every callback of either command
\* that v holds runs the escape branch (SwapEdge.SwapEdge lines 249-252,
\* AddPoint.add_point lines 81-84) and removes the callback of its self.MC
\* from `view`; a callback that the other view holds stays with it
SoButtonEvent_escape ==
    \E v \in Views :
      /\ SwapOn(v) \cup AddOn(v) # {}
      /\ swap' = IF SwapOn(v) # {}
                 THEN [swap EXCEPT
                         !.registered =
                            removeEventCallbackPivy(SwapOn("view"), swap.MC)
                               \cup swap.away,
                         !.message = FALSE, !.attempted = FALSE,
                         !.outcome = "escape"]
                 ELSE swap
      /\ addpt' = IF AddOn(v) # {}
                  THEN [addpt EXCEPT
                          !.registered = removeEventCallbackPivy(@, addpt.MC),
                          !.inserted = 0, !.outcome = "escape"]
                  ELSE addpt
      /\ UNCHANGED tracker
      /\ UNCHANGED <<splitter, wire, marker>>

\* a button-1 press on the view v: every callback of either command that v
\* holds runs its button-1 branch
SoButtonEvent_button1 ==
    /\ swap.presses < MaxPresses
    /\ Cardinality(DOMAIN swap.Mesh) + 2 * Cardinality(addpt.registered)
          <= MaxFacets + 2 * MaxInserts
    /\ \E v \in Views, picked \in FacetIdx(swap.Mesh) \cup {-1},
          info \in BOOLEAN, selected \in BOOLEAN :
         LET before ==
                [swap  |-> IF SwapOn(v) # {}
                           THEN [swap EXCEPT !.message = FALSE,
                                             !.attempted = FALSE,
                                             !.latest = FALSE]
                           ELSE swap,
                 addpt |-> IF AddOn(v) # {}
                           THEN [addpt EXCEPT !.inserted = 0]
                           ELSE addpt]
             after  == SoButtonEvent_delivered(
                          before, SwapOn(v) \cup AddOn(v),
                          picked, info, selected)
         IN  /\ SwapOn(v) \cup AddOn(v) # {}
             /\ SwapOn(v) # {} => Len(swap.FaceIndexes) < MaxPicks
             /\ swap' = IF picked = -1 \/ SwapOn(v) = {}
                        THEN [after.swap EXCEPT !.presses = @ + 1]
                        ELSE [after.swap EXCEPT
                                !.presses = @ + 1,
                                !.picks = (swap.picks + 1) % 2,
                                !.latest = (after.swap.pair = <<swap.prev, picked>>),
                                !.pair = <<>>,
                                !.prev = picked]
             /\ addpt' = after.addpt
    /\ UNCHANGED tracker
    /\ UNCHANGED <<splitter, wire, marker>>

-----------------------------------------------------------------------------
(* sprite_splitter_task.py: the sprite splitter task.  An image plane is    *)
(* the number of its creation; doc is the set of the planes of the task     *)
(* that the document holds.                                                 *)

NoPlane == 0

\* the files the user can choose
FileNames == {"a.png", "b.png"}

\* faulty variant: the plane the task holds stays in the document
doc_keeps_plane(doc, plane) == doc

\* load_file, lines 122-123: the plane the task holds leaves the document
doc_without_plane(doc, plane) ==
    IF plane # NoPlane THEN doc \ {plane} ELSE doc

\* SpriteSplitterTask.__init__: no form, no plane, both input callbacks
\* registered with the view; text is the content of the form's file name
\* field, choosing whether choose_file waits in its file dialog, cursor
\* where the cursor lines cross, removed and last are history
SplitterTask ==
    [form |-> FALSE, choosing |-> FALSE, text |-> "", plane |-> NoPlane,
     ImageFile |-> "",
     doc |-> {}, made |-> 0, cursor |-> 0,
     callbacks |-> InitCallbacks, view |-> InitCallbacks,
     removed |-> [t \in InitCallbacks |-> 0], last |-> "init"]

\* SpriteSplitterTask.setup: the form of the task panel is found
task_setup ==
    /\ ~splitter.form
    /\ splitter' = [splitter EXCEPT !.form = TRUE, !.last = "setup"]
    /\ UNCHANGED tracker
    /\ UNCHANGED <<swap, addpt, wire, marker>>

\* SpriteSplitterTask.load_file(file_name) on the task s; the empty name
\* reads the form, which raises AttributeError before setup()
load_file(s, file_name) ==
    IF file_name = "" /\ ~s.form
    THEN [s EXCEPT !.last = "load_failed"]
    ELSE LET name   == IF file_name = "" THEN s.text ELSE file_name
             _plane == s.made + 1
         IN  [s EXCEPT !.doc = doc_without_plane(s.doc, s.plane) \cup {_plane},
                       !.plane = _plane,
                       !.ImageFile = name,
                       !.made = _plane,
                       !.cursor = 0,
                       !.last = "load_file"]

task_load_file ==
    /\ splitter.made < MaxLoads
    /\ \E file_name \in FileNames \cup {""} :
         splitter' = load_file(splitter, file_name)
    /\ UNCHANGED tracker
    /\ UNCHANGED <<swap, addpt, wire, marker>>

\* SpriteSplitterTask.choose_file up to the file dialog (lines 161-171):
\* self.form.tr raises AttributeError before setup(); else the dialog opens
\* and the task waits in it while other callbacks run
task_choose_file ==
    /\ ~splitter.choosing
    /\ splitter' = IF splitter.form
                   THEN [splitter EXCEPT !.choosing = TRUE,
                                         !.last = "choose_file"]
                   ELSE [splitter EXCEPT !.last = "choose_failed"]
    /\ UNCHANGED tracker
    /\ UNCHANGED <<swap, addpt, wire, marker>>

\* SpriteSplitterTask.choose_file from the answer of the dialog (lines
\* 173-177): nothing on a cancelled dialog, else the name goes to the form
\* and the file is loaded
task_choose_file_returns ==
    /\ splitter.choosing
    /\ splitter.made < MaxLoads
    /\ \E file_name \in FileNames \cup {""} :
         splitter' = IF file_name = ""
                     THEN [splitter EXCEPT !.choosing = FALSE,
                                           !.last = "choose_cancelled"]
                     ELSE load_file([splitter EXCEPT !.choosing = FALSE,
                                                     !.text = file_name],
                                    file_name)
    /\ UNCHANGED tracker
    /\ UNCHANGED <<swap, addpt, wire, marker>>

\* SpriteSplitterTask.mouse_event: nothing without a plane; else the mouse
\* state is updated and, over the plane, the cursor lines follow the pointer
task_mouse_event ==
    /\ "SoLocation2Event" \in splitter.view
    /\ \E over \in BOOLEAN, c \in Coords :
         splitter' = [splitter EXCEPT
                        !.cursor = IF splitter.plane # NoPlane /\ over
                                   THEN c ELSE @,
                        !.last = "mouse_event"]
    /\ mouse' = IF splitter.plane # NoPlane
                THEN mouse_update(mouse, [Type |-> "SoLocation2Event"])
                ELSE mouse
    /\ UNCHANGED held
    /\ UNCHANGED <<swap, addpt, wire, marker>>

\* SpriteSplitterTask.button_event: nothing without a plane; else the mouse
\* state is updated
task_button_event ==
    /\ "SoMouseButtonEvent" \in splitter.view
    /\ splitter' = [splitter EXCEPT !.last = "button_event"]
    /\ \E b \in {"BUTTON1", "BUTTON2"}, st \in {"DOWN", "UP"} :
         mouse' = IF splitter.plane # NoPlane
                  THEN mouse_update(mouse, [Type |-> "SoMouseButtonEvent",
                                            Button |-> b, State |-> st])
                  ELSE mouse
    /\ UNCHANGED held
    /\ UNCHANGED <<swap, addpt, wire, marker>>

\* faulty variant: the callbacks are removed and the table is kept
finish_keeps_table(s) ==
    [s EXCEPT !.view = @ \ s.callbacks,
              !.removed = [t \in InitCallbacks |->
                              IF t \in s.callbacks THEN @[t] + 1 ELSE @[t]]]

\* SpriteSplitterTask.finish on the task s: with a non-empty table every
\* callback of it is removed from the view and the table cleared
finish(s) ==
    IF s.callbacks # {}
    THEN [s EXCEPT !.view = @ \ s.callbacks,
                   !.removed = [t \in InitCallbacks |->
                                   IF t \in s.callbacks THEN @[t] + 1 ELSE @[t]],
                   !.callbacks = {}]
    ELSE s

\* the ways into finish()
FinishVia == {"accept", "reject", "clean_up", "escape"}

\* SpriteSplitterTask.accept
task_accept ==
    /\ splitter' = [finish(splitter) EXCEPT !.last = "accept"]
    /\ UNCHANGED tracker
    /\ UNCHANGED <<swap, addpt, wire, marker>>

\* SpriteSplitterTask.reject
task_reject ==
    /\ splitter' = [finish(splitter) EXCEPT !.last = "reject"]
    /\ UNCHANGED tracker
    /\ UNCHANGED <<swap, addpt, wire, marker>>

\* SpriteSplitterTask.clean_up
task_clean_up ==
    /\ splitter' = [finish(splitter) EXCEPT !.last = "clean_up"]
    /\ UNCHANGED tracker
    /\ UNCHANGED <<swap, addpt, wire, marker>>

\* SpriteSplitterTask.key_event: finish() on the escape key alone
task_key_event ==
    /\ \E Key \in {"ESCAPE", "A"} :
         splitter' = IF Key = "ESCAPE"
                     THEN [finish(splitter) EXCEPT !.last = "escape"]
                     ELSE [splitter EXCEPT !.last = "key_event"]
    /\ UNCHANGED tracker
    /\ UNCHANGED <<swap, addpt, wire, marker>>

-----------------------------------------------------------------------------
(* commands/wire_tracker.py: the wire tracker.  An edit tracker is the      *)
(* number of its creation; ends[k] counts the finalize() calls on the edit  *)
(* tracker k.                                                               *)

\* the point lists of an update
PointLists == UNION {[1..n -> Coords] : n \in 0..MaxPoints}

\* points=None
NoPoints == [none |-> TRUE, items |-> <<>>]

\* what a call can pass as points: None or a list, empty or not
PointArgs == {NoPoints} \cup {[none |-> FALSE, items |-> l] : l \in PointLists}

\* the members of a list
Range(f) == {f[i] : i \in DOMAIN f}

\* faulty variant: the edit trackers are finalized and stay in the list
finalize_edit_trackers_keeps(w) ==
    [w EXCEPT !.ends = [k \in DOMAIN @ |->
                          IF k \in Range(w.edit_trackers) THEN @[k] + 1
                                                          ELSE @[k]]]

\* WireTracker.finalize_edit_trackers: every edit tracker of the list is
\* finalized and the list cleared
finalize_edit_trackers(w) ==
    IF w.edit_trackers = <<>>
    THEN w
    ELSE [w EXCEPT !.ends = [k \in DOMAIN @ |->
                               IF k \in Range(w.edit_trackers) THEN @[k] + 1
                                                               ELSE @[k]],
                   !.edit_trackers = <<>>]

\* coords.point.set1Value(_i, _pt) for every point: the first values of the
\* coordinate node are replaced, later ones stay
set1Values(coords, points) ==
    [i \in 1..(IF Len(points) > Len(coords) THEN Len(points) ELSE Len(coords))
        |-> IF i <= Len(points) THEN points[i] ELSE coords[i]]

\* WireTracker.update_points(points) on the wire w
update_points(w, points) ==
    LET c    == finalize_edit_trackers([w EXCEPT !.numVertices = Len(points)])
        made == Len(c.ends)
    IN  [c EXCEPT !.edit_trackers = [i \in 1..Len(points) |-> made + i],
                  !.ends = c.ends \o [i \in 1..Len(points) |-> 0],
                  !.coords = set1Values(c.coords, points)]

\* `if points:` (line 90): a list that is not empty
Truthy(arg) == ~arg.none /\ arg.items # <<>>

\* WireTracker.update(points): update_points for a list that is not empty,
\* nothing for None or an empty list
wire_updated(w, arg) ==
    IF Truthy(arg) THEN update_points(w, arg.items) ELSE w

\* WireTracker.__init__(doc, object_name, points) for a list of points
\* (len(None) of line 76 raises TypeError); nonempty and rebuilt are
\* history: the length of the last non-empty list given to update() or
\* update_points(), and the length of the last list that reached
\* update_points(), both 0 after finalize() or finalize_edit_trackers()
WireOf(points) ==
    [wire_updated([edit_trackers |-> <<>>, ends |-> <<>>,
                   numVertices |-> Len(points), coords |-> <<>>,
                   attached |-> TRUE, nonempty |-> 0, rebuilt |-> 0,
                   last |-> "init"], [none |-> FALSE, items |-> points])
        EXCEPT !.nonempty = Len(points), !.rebuilt = Len(points)]

\* create(doc, object_name, points), the factory of the module: the caller
\* holds the new wire tracker from then on; with points=None the loop of
\* line 41 raises TypeError and the caller keeps the wire it had
create ==
    /\ \E arg \in PointArgs :
         wire' = IF arg.none THEN [wire EXCEPT !.last = "create_raised"]
                             ELSE [WireOf(arg.items) EXCEPT !.last = "create"]
    /\ UNCHANGED tracker
    /\ UNCHANGED <<swap, addpt, splitter, marker>>

\* a call of update(points=points)
wire_update ==
    /\ \E arg \in PointArgs :
         /\ Len(wire.ends) + Len(arg.items) <= MaxTrackers
         /\ wire' = [wire_updated(wire, arg) EXCEPT
                       !.nonempty = IF Truthy(arg) THEN Len(arg.items) ELSE @,
                       !.rebuilt = IF Truthy(arg) THEN Len(arg.items) ELSE @,
                       !.last = "update"]
    /\ UNCHANGED tracker
    /\ UNCHANGED <<swap, addpt, splitter, marker>>

\* a call of update_points(points); len(None) of line 101 raises TypeError
\* before anything is changed
wire_update_points ==
    /\ \E arg \in PointArgs :
         /\ Len(wire.ends) + Len(arg.items) <= MaxTrackers
         /\ wire' = IF arg.none
                    THEN [wire EXCEPT !.last = "update_points_raised"]
                    ELSE [update_points(wire, arg.items) EXCEPT
                            !.nonempty = IF Truthy(arg) THEN Len(arg.items)
                                                        ELSE @,
                            !.rebuilt = Len(arg.items),
                            !.last = "update_points"]
    /\ UNCHANGED tracker
    /\ UNCHANGED <<swap, addpt, splitter, marker>>

\* a call of finalize_edit_trackers() by itself: the wire stays in the
\* scene with its vertices
wire_finalize_edit_trackers ==
    /\ wire' = [finalize_edit_trackers(wire) EXCEPT
                  !.nonempty = 0, !.rebuilt = 0,
                  !.last = "finalize_edit_trackers"]
    /\ UNCHANGED tracker
    /\ UNCHANGED <<swap, addpt, splitter, marker>>

\* WireTracker.finalize: the edit trackers are finalized, then the wire
\* leaves the scene (BaseTracker.finalize)
wire_finalize ==
    /\ wire' = [finalize_edit_trackers(wire) EXCEPT
                  !.attached = FALSE, !.nonempty = 0, !.rebuilt = 0,
                  !.last = "finalize"]
    /\ UNCHANGED tracker
    /\ UNCHANGED <<swap, addpt, splitter, marker>>

-----------------------------------------------------------------------------
(* trackers2/core/marker.py and geometry.py: a marker.  A Python value is   *)
(* a record of its kind (None, tuple, list) and its items; a coordinate has *)
(* one item, as the geometry has one dimension.                             *)

PyNone == [kind |-> "None", items |-> <<>>]

\* the values a coordinate can be given as: None, a tuple or a list, empty
\* or of one number
PyValues ==
    {PyNone}
    \cup {[kind |-> k, items |-> i] :
             k \in {"tuple", "list"}, i \in {<<>>} \cup {<<c>> : c \in Coords}}

\* the arguments of update(): nothing, one value that is not a list, or a
\* list of values
MarkerArgs ==
    {[form |-> "None", coords |-> <<>>]}
    \cup {[form |-> "one", coords |-> <<v>>] :
             v \in {w \in PyValues : w.kind = "tuple"}}
    \cup {[form |-> "list", coords |-> l] :
             l \in UNION {[1..n -> PyValues] : n \in 0..MaxArgs}}

\* `not value`
Falsy(v) == v.kind = "None" \/ v.items = <<>>

\* isinstance(value, Iterable)
IsIterable(v) == v.kind \in {"tuple", "list"}

\* tuple(value)
as_tuple(v) == [kind |-> "tuple", items |-> v.items]

\* faulty variant: the last coordinate of the list is picked
last_of(coords) == coords[Len(coords)]

\* Marker.update, line 76: the first coordinate of the list is picked
first_of(coords) == coords[1]

\* a number as a Python value
PyInt(n) == [kind |-> "int", items |-> <<n>>]

\* Geometry.set_coordinates(coordinates, do_notify): nothing for an empty
\* value; a list is handed to setValues as it is, its members becoming the
\* values of the coordinate node, any other value as a list of itself
set_coordinates(node, coordinates) ==
    IF Falsy(coordinates) THEN node
    ELSE IF coordinates.kind = "list"
         THEN [i \in DOMAIN coordinates.items |-> PyInt(coordinates.items[i])]
         ELSE <<coordinates>>

\* Marker.update(coord) on the marker m; coord[0] of an empty list raises
\* IndexError.  before and given are history: the point before the call and
\* the argument of the call
marker_updated(m, arg) ==
    IF arg.form = "list" /\ arg.coords = <<>>
    THEN [m EXCEPT !.before = m.point, !.given = arg, !.last = "update_raised"]
    ELSE LET picked == IF arg.form = "None" THEN PyNone
                                            ELSE first_of(arg.coords)
             coord  == IF Falsy(picked) THEN m.point ELSE picked
             _c     == IF coord.kind # "tuple" /\ IsIterable(coord)
                       THEN as_tuple(coord) ELSE coord
         IN  [m EXCEPT !.point = _c,
                       !.drag_point = _c,
                       !.coordinate = set_coordinates(@, _c),
                       !.before = m.point,
                       !.given = arg,
                       !.last = "update"]

\* Marker.__init__(name, point): the point as a tuple, then update()
MarkerOf(point) ==
    [marker_updated([point |-> as_tuple(point), drag_point |-> as_tuple(point),
                     coordinate |-> <<>>, before |-> PyNone,
                     given |-> [form |-> "None", coords |-> <<>>],
                     last |-> "init"],
                    [form |-> "None", coords |-> <<>>])
        EXCEPT !.last = "init"]

\* a call of update(coord)
marker_update ==
    /\ \E arg \in MarkerArgs : marker' = marker_updated(marker, arg)
    /\ UNCHANGED tracker
    /\ UNCHANGED <<swap, addpt, splitter, wire>>

\* a call of set_coordinates(coordinates, do_notify) by itself, which the
\* marker inherits: the coordinate node alone changes.  before and given
\* are those of an update() call that is the last call
marker_set_coordinates ==
    /\ \E v \in PyValues :
         marker' = [marker EXCEPT
                      !.coordinate = set_coordinates(@, v),
                      !.before = marker.point,
                      !.given = [form |-> "None", coords |-> <<>>],
                      !.last = "set_coordinates"]
    /\ UNCHANGED tracker
    /\ UNCHANGED <<swap, addpt, splitter, wire>>

-----------------------------------------------------------------------------
(* Initial states *)

\* a spiral solved from the three nodes for the end radius r (the start radius
\* unset or infinite) or for the start radius r
SpiralEnd(nodes, r, sr) ==
    [solve_unk_length([NoCurve EXCEPT !.PI = nodes[1], !.Start = nodes[0],
                                      !.End = nodes[2], !.EndRadius = r])
        EXCEPT !.StartRadius = sr]

SpiralStart(nodes, r) ==
    solve_unk_length([NoCurve EXCEPT !.PI = nodes[1], !.Start = nodes[0],
                                     !.End = nodes[2], !.StartRadius = r])

ArcOf(nodes, r) == generate_arc([NoCurve EXCEPT !.Radius = r], nodes)

\* the curves a tracker over the nodes can be constructed with
InitCurves(nodes) ==
    {ArcOf(nodes, r) : r \in Radii}
    \cup {c \in {SpiralEnd(nodes, r, sr) : r \in Radii, sr \in {0, Inf}}
                \cup {SpiralStart(nodes, r) : r \in Radii} :
            c.TanShort > 0 /\ c.TanLong > 0}

\* type tags update() has no branch for
OtherTypes == {"Line", "Clothoid"}

\* records with such a tag, with a Radius and without one
TaggedCurves ==
    {[NoCurve EXCEPT !.Type = t, !.Radius = r] : t \in OtherTypes,
                                                 r \in Radii \cup {0}}

\* CurveTracker.__init__, the curve and the nodes apart
InitTracker ==
    /\ mouse = [pressed |-> FALSE, dragging |-> FALSE]
    /\ callbacks = InitCallbacks
    /\ node_state = FreshNodes
    /\ state = "UNSELECTED"
    /\ user_dragging = FALSE
    /\ is_valid = TRUE
    /\ drag = ResetDrag
    /\ styles = FreshStyles
    /\ last = "init"
    /\ calls = <<>>
    /\ solved = NoCurve
    /\ checked = <<>>
    /\ asked = NoCurve
    /\ affected = <<>>
    /\ styled = {}
    /\ view_cb = InitCallbacks
    /\ removed = [t \in InitCallbacks |-> 0]
    /\ strained = FALSE
    /\ swap = SwapCommand
    /\ addpt = AddPointCommand
    /\ splitter = SplitterTask
    /\ wire = WireOf(<<0, 2>>)
    /\ marker = MarkerOf([kind |-> "list", items |-> <<0>>])

\* the nodes of a one-curve chain: both outer nodes are chain ends
ChainNodes == List3(Pt(0, TRUE), Pt(2, FALSE), Pt(4, TRUE))

\* a view with this tracker alone
NoSiblings == <<>>

\* the other trackers of a view with several, as constructed
Siblings == [s \in 1..MaxSiblings |-> [user_dragging |-> FALSE, registered |-> TRUE]]

\* the snapshot history before any drag has started
NoSnap == [curve |-> NoCurve, pi_nodes |-> List3(NoPt, NoPt, NoPt)]

Init ==
    /\ InitTracker
    /\ pi_nodes = ChainNodes
    /\ curve \in InitCurves(ChainNodes)
    /\ snap = NoSnap
    /\ sib = NoSiblings

InitSolve ==
    /\ InitTracker
    /\ pi_nodes \in {List3(Pt(a, ea), Pt(b, FALSE), Pt(c, ec)) :
                        a \in Coords, b \in Coords, c \in Coords,
                        ea \in BOOLEAN, ec \in BOOLEAN}
    /\ curve \in InitCurves(pi_nodes)
    /\ snap = NoSnap
    /\ sib = NoSiblings

-----------------------------------------------------------------------------
(* Specifications *)

\* the input events of one tracker and the selection changes between them
Next ==
    \/ mouse_event /\ UNCHANGED apart
    \/ button_event /\ UNCHANGED apart
    \/ key_event /\ UNCHANGED apart
    \/ select_node /\ UNCHANGED apart
    \/ build_trackers /\ UNCHANGED apart

Spec == Init /\ [][Next]_vars

\* a drag: the input events, the PI moving under it and the owner's update()
NextDrag ==
    \/ mouse_event /\ UNCHANGED apart
    \/ button_event /\ UNCHANGED apart
    \/ move_node(1) /\ UNCHANGED apart
    \/ update /\ UNCHANGED apart
    \/ build_trackers /\ UNCHANGED apart

SpecDrag == Init /\ [][NextDrag]_vars

\* solving: the nodes of the curve move, update() re-solves
NextSolve ==
    \/ (\E i \in NodeIdx : move_node(i)) /\ UNCHANGED apart
    \/ update /\ UNCHANGED apart
    \/ build_trackers /\ UNCHANGED apart

SpecSolve == InitSolve /\ [][NextSolve]_vars

\* the same, for a tracker constructed with a record of another type
InitTagged ==
    /\ InitTracker
    /\ pi_nodes \in {List3(Pt(a, ea), Pt(b, FALSE), Pt(c, ec)) :
                        a \in Coords, b \in Coords, c \in Coords,
                        ea \in BOOLEAN, ec \in BOOLEAN}
    /\ curve \in TaggedCurves
    /\ snap = NoSnap
    /\ sib = NoSiblings

SpecTagged == InitTagged /\ [][NextSolve]_vars

\* the validator, given curve lists
NextValidate == validate_curve /\ UNCHANGED apart

SpecValidate == Init /\ [][NextValidate]_vars

\* a drag of the PI node, with validator runs on the curves around it
\* while the drag lasts
NextDragChain ==
    \/ mouse_event /\ UNCHANGED apart
    \/ button_event /\ UNCHANGED apart
    \/ user_dragging /\ move_node(1) /\ UNCHANGED apart
    \/ user_dragging /\ validate_curve /\ UNCHANGED apart
    \/ build_trackers /\ UNCHANGED apart

SpecDragChain == Init /\ [][NextDragChain]_vars

\* the Swap Edge command: activated, picks, escape
NextSwap ==
    \/ swap.registered = {} /\ Activated
    \/ SoButtonEvent_escape
    \/ SoButtonEvent_button1

SpecSwap == Init /\ [][NextSwap]_vars

\* the commands and trackers beside a curve tracker of one arc
InitCommands ==
    /\ InitTracker
    /\ pi_nodes = ChainNodes
    /\ curve = ArcOf(ChainNodes, 1)
    /\ snap = NoSnap
    /\ sib = NoSiblings

\* the Swap Edge and the Add Point command, each activated any number of
\* times before an escape
NextCommands ==
    \/ Cardinality(swap.registered) < MaxActivations /\ Activated
    \/ Cardinality(addpt.registered) < MaxActivations /\ add_Activated
    \/ SoButtonEvent_escape
    \/ swap.presses < MaxJointPresses /\ SoButtonEvent_button1

SpecCommands == InitCommands /\ [][NextCommands]_vars

\* the sprite splitter task: its panel, its files, its input and its end
NextSplitter ==
    \/ task_setup
    \/ task_load_file
    \/ task_choose_file
    \/ task_choose_file_returns
    \/ task_mouse_event
    \/ task_button_event
    \/ task_accept
    \/ task_reject
    \/ task_clean_up
    \/ task_key_event

SpecSplitter == InitCommands /\ [][NextSplitter]_vars

\* a wire tracker of two points, updated and finalized in any order, and
\* the wire trackers created after it
NextWire ==
    \/ create
    \/ wire_update
    \/ wire_update_points
    \/ wire_finalize_edit_trackers
    \/ wire_finalize

SpecWire == InitCommands /\ [][NextWire]_vars

\* a marker constructed at 0, updated any number of times, its coordinate
\* node set directly in between
NextMarker ==
    \/ marker_update
    \/ marker_set_coordinates

SpecMarker == InitCommands /\ [][NextMarker]_vars

\* input events and selection, with finalize() called at any moment
NextFinal ==
    \/ mouse_event /\ UNCHANGED apart
    \/ button_event /\ UNCHANGED apart
    \/ select_node /\ UNCHANGED apart
    \/ finalize /\ UNCHANGED apart
    \/ finalize_fails /\ UNCHANGED apart
    \/ build_trackers /\ UNCHANGED apart

SpecFinal == Init /\ [][NextFinal]_vars

\* several curve trackers constructed on one view
InitView ==
    /\ InitTracker
    /\ pi_nodes = ChainNodes
    /\ curve \in InitCurves(ChainNodes)
    /\ snap = NoSnap
    /\ sib = Siblings

NextView ==
    \/ view_motion
    \/ view_button
    \/ select_node /\ UNCHANGED apart
    \/ \E s \in DOMAIN sib : sib_finalize(s)

SpecView == InitView /\ [][NextView]_vars

-----------------------------------------------------------------------------
(* Helpers of the claims *)

\* the last step was the button event that ended a drag
DragEnded == last = "SoMouseButtonEvent" /\ calls = <<"end_drag">>

-----------------------------------------------------------------------------
(* Claims *)

\* C1: when a pointer-button event finds the tracker dragging and button 1
\* no longer dragging, end_drag runs, the tracker is idle afterwards and the
\* drag state is the reset one; is_valid is what the chain validator finds
\* for the chain the drag produced, and the drag is committed (the curve and
\* the nodes stay as the drag left them) exactly when is_valid holds and
\* rolled back to the snapshot otherwise.
C1_EndDragCommitsIffValid ==
    [][(last' = "SoMouseButtonEvent" /\ user_dragging /\ ~mouse'.dragging)
        => /\ calls' = <<"end_drag">>
           /\ ~user_dragging'
           /\ drag' = ResetDrag
           /\ is_valid <=> ~ChainInfeasible
           /\ is_valid => (curve' = curve /\ pi_nodes' = pi_nodes)
           /\ ~is_valid => (curve' = snap.curve /\ pi_nodes' = snap.pi_nodes)]_vars

\* C2: after a drag that ended by rollback (a button-up that found the chain
\* infeasible) the curve and the node positions equal the snapshot taken when
\* the drag started.
C2_RollbackRestoresSnapshot ==
    (DragEnded /\ ChainInfeasible)
        => (curve = snap.curve /\ pi_nodes = snap.pi_nodes)

\* C3: an escape key received while the tracker is dragging ends the drag
\* within the handling of that event: once a key event has been handled the
\* tracker is not dragging.
C3_KeyEndsDrag == last = "SoKeyboardEvent" => ~user_dragging

\* C4 as claimed: start_drag is invoked only while at least one node tracker
\* of the curve is SELECTED.
C4_DragNeedsSelection ==
    calls = <<"start_drag">> => \E i \in NodeIdx : node_state[i] = "SELECTED"

\* C4 amended: an idle tracker starts dragging (start_drag is invoked and
\* user_dragging becomes true) on every pointer-motion event that finds
\* button 1 dragging, whatever the node trackers' selection states, and on
\* nothing else.
C4_DragStartsOnMotion ==
    [][/\ (last' = "SoLocation2Event" /\ mouse'.dragging /\ ~user_dragging)
           => (calls' = <<"start_drag">> /\ user_dragging')
       /\ (~user_dragging /\ user_dragging')
           => (last' = "SoLocation2Event" /\ mouse'.dragging
               /\ calls' = <<"start_drag">>)]_vars

\* C4 witness: start_drag was invoked and the tracker is dragging with all
\* three node trackers UNSELECTED.
C4_Witness ==
    /\ calls = <<"start_drag">>
    /\ user_dragging
    /\ \A i \in NodeIdx : node_state[i] = "UNSELECTED"

\* the aggregate of the node trackers' states as the data model defines it
AggregateOf(ns) ==
    LET n == Cardinality({i \in NodeIdx : ns[i] = "SELECTED"})
    IN  IF n = 3 THEN "SELECTED" ELSE IF n > 0 THEN "PARTIAL" ELSE "UNSELECTED"

\* C5: after every pointer-button event the tracker's state is SELECTED when
\* all three node trackers are SELECTED, PARTIAL when some but not all are,
\* and UNSELECTED otherwise.
C5_AggregateAfterButton ==
    last = "SoMouseButtonEvent" => state = AggregateOf(node_state)

\* C5 witness: a button event found one node SELECTED, one PARTIAL and one
\* UNSELECTED and left the tracker PARTIAL.
C5_Witness ==
    /\ last = "SoMouseButtonEvent"
    /\ node_state = List3("SELECTED", "PARTIAL", "UNSELECTED")
    /\ state = "PARTIAL"

\* C6: every pointer-button event recomputes the aggregate state from the
\* node trackers, every pointer-motion event leaves it as it was, whether the
\* motion starts a drag, continues one or does neither.
C6_MotionKeepsAggregate ==
    [][/\ last' = "SoLocation2Event" => state' = state
       /\ last' = "SoMouseButtonEvent" => state' = AggregateOf(node_state')]_vars

\* C6 witness: a motion event continued a drag and left an aggregate state
\* that no longer matches the node trackers.
C6_Witness ==
    /\ last = "SoLocation2Event"
    /\ calls = <<"on_drag">>
    /\ state # AggregateOf(node_state)

\* C7: when the spiral solve answers a curve with TanShort <= 0 or
\* TanLong <= 0, the curve after update() is the curve before it.
C7_InfeasibleKeepsCurve ==
    [][(IsUpdate(last') /\ curve.Type = "Spiral"
            /\ (solved'.TanShort <= 0 \/ solved'.TanLong <= 0))
        => curve' = curve]_vars

\* C7 witness: update() got an answer with exactly one non-positive tangent
\* and kept a curve solved for an earlier position of the PI.
C7_Witness ==
    /\ IsUpdate(last)
    /\ curve.Type = "Spiral"
    /\ solved.TanShort <= 0
    /\ solved.TanLong > 0
    /\ curve.PI # pi_nodes[1]

\* C8: the installed spiral curve always has TanShort > 0 and TanLong > 0.
C8_SpiralAlwaysFeasible ==
    curve.Type = "Spiral" => (curve.TanShort > 0 /\ curve.TanLong > 0)

\* C8 witness: update() installed the solver's answer for a known start
\* radius, its end being the scaled one and not the end node.
C8_Witness ==
    /\ IsUpdate(last)
    /\ curve.Type = "Spiral"
    /\ curve = solved
    /\ curve.StartRadius \in Radii
    /\ curve.End # pi_nodes[2]

\* C9: an update() that directly follows an update(), no node having moved in
\* between, leaves the curve the first one installed, arc or spiral.
C9_UpdateIdempotent ==
    [][(IsUpdate(last) /\ IsUpdate(last')) => curve' = curve]_vars

\* C9 witness: two updates in a row on a spiral with a known end radius whose
\* start node is a chain end, the curve being the solver's answer for the
\* scaled start.
C9_Witness ==
    /\ last = "update_again"
    /\ curve.Type = "Spiral"
    /\ curve.EndRadius # 0
    /\ pi_nodes[0].is_end_node
    /\ curve = solved
    /\ curve.Start # pi_nodes[0]

\* the facing tangent lengths of the i-th and the (i+1)-th checked curve sum
\* to more than the distance between their PIs
PairExceeds(i) ==
    checked[i].Tangent + checked[i + 1].Tangent
        > distanceToPoint(checked[i].PI, checked[i + 1].PI)

\* C10: after a validator run both curves of every adjacent pair whose facing
\* tangent lengths sum to more than their PI distance are marked failing,
\* never only one of them.
C10_PairMarksBoth ==
    last = "validate"
        => \A i \in 1..(Len(checked) - 1) :
              PairExceeds(i) => (styles[i - 1] = "ERROR" /\ styles[i] = "ERROR")

\* a curve of the chain carries the failing style
MarkedFailing(i) == styles[i] = "ERROR"

\* C12: the list a validator run checks is the affected curves plus the
\* preceding curve when the range does not start at the first curve and the
\* following curve when it does not end at the last; a range open on both
\* sides gets both neighbours.
C12_BothNeighboursChecked ==
    (last = "validate" /\ affected # <<>>)
        => styled = {i \in ChainIdx : /\ affected[1] - 1 <= i
                                      /\ i <= affected[Len(affected)] + 1}

\* the first curve of the affected range, when that is the chain's first
\* curve, has a tangent longer than its PI's distance to the start anchor
StartExceeds ==
    /\ affected[1] = 0
    /\ checked[1].Tangent > distanceToPoint(checked[1].PI, pi_nodes[0])

\* the same for the chain's last curve and the end anchor
EndExceeds ==
    /\ affected[Len(affected)] = 2
    /\ checked[Len(checked)].Tangent
           > distanceToPoint(checked[Len(checked)].PI, pi_nodes[2])

\* C11: after each validator run is_valid is true exactly when no curve of
\* the chain is marked failing; a pair check or an endpoint check that fails
\* on the curves the run is given marks a curve (the run checks them and a
\* neighbour); a run over an empty affected range leaves is_valid true.
C11_ValidIffNoneMarked ==
    last = "validate"
        => /\ is_valid <=> (\A i \in ChainIdx : ~MarkedFailing(i))
           /\ affected = <<>> => is_valid
           /\ ( /\ affected # <<>>
                /\ \/ \E i \in 1..(Len(checked) - 1) : PairExceeds(i)
                   \/ StartExceeds
                   \/ EndExceeds )
                 => \E i \in ChainIdx : MarkedFailing(i)

\* C13: when the chain's first curve is in the affected range a validator run
\* marks it failing if its starting tangent exceeds the distance from its PI
\* to the start anchor, and symmetrically the chain's last curve against the
\* end anchor.
C13_EndpointsMarked ==
    (last = "validate" /\ affected # <<>>)
        => /\ StartExceeds => MarkedFailing(0)
           /\ EndExceeds => MarkedFailing(2)

\* C14: while Dragging every pointer-motion event re-solves the affected
\* curve and then runs the chain validator before the handler returns, so
\* after it the curve is the solution for the latest node positions and
\* is_valid tells whether the chain is feasible.
C14_MotionResolvesAndValidates ==
    [][(last' = "SoLocation2Event" /\ calls' = <<"on_drag">>)
          => /\ curve' = updated_curve(curve, pi_nodes)
             /\ is_valid' <=> ~ChainInfeasible']_vars

\* an index list that is ascending and contiguous (so without duplicates)
\* and stays within the n curves of the chain
IsIndexRange(l, n) ==
    /\ \A k \in 1..Len(l) : 0 <= l[k] /\ l[k] <= n - 1
    /\ \A k \in 1..(Len(l) - 1) : l[k + 1] = l[k] + 1

\* C15: the affected curve index list computed at drag start is a contiguous
\* ascending range without duplicates inside [0, n-1] that contains every
\* curve touching a selected Control Point; the tracker's one curve (index
\* 0, n = 1) touches each of its three nodes.
C15_AffectedCoversSelection ==
    (last = "SoLocation2Event" /\ calls = <<"start_drag">>)
        => /\ IsIndexRange(drag.curves, 1)
           /\ (\E i \in NodeIdx : node_state[i] = "SELECTED")
                 => \E k \in 1..Len(drag.curves) : drag.curves[k] = 0

\* C16: finalize() may be called in any state; after it no callback of the
\* tracker is registered with the view and its callback table is empty, and
\* a second finalize() changes nothing and unregisters no callback a second
\* time.
C16_FinalizeIdempotent ==
    /\ [](IsFinalize(last) => (callbacks = {} /\ view_cb = {}))
    /\ [](\A t \in InitCallbacks : removed[t] <= 1)
    /\ [][(IsFinalize(last) /\ last' = "finalize_again")
             => UNCHANGED <<mouse, callbacks, node_state, state, user_dragging,
                            is_valid, drag, curve, pi_nodes, styles, view_cb,
                            removed>>]_vars

\* finalize() was called twice in a row on a tracker that was Dragging
C16_Witness ==
    /\ last = "finalize_again"
    /\ user_dragging
    /\ view_cb = {}
    /\ \A t \in InitCallbacks : removed[t] = 1

\* C17: every callback the constructor registered is unregistered by
\* finalize() on every exit path, the one where finalizing an owned tracker
\* fails part-way included.
C17_UnregisteredOnEveryExit ==
    (IsFinalize(last) \/ last = "finalize_failed")
        => (view_cb = {} /\ callbacks = {})

\* the number of trackers of the view that are Dragging
DraggingCount ==
    (IF user_dragging THEN 1 ELSE 0)
        + Cardinality({s \in DOMAIN sib : sib[s].user_dragging})

\* C18: of any number of curve trackers attached to the same view at most
\* one is Dragging at any time.
C18_AtMostOneDragging == DraggingCount <= 1

\* C18 as the code has it: every tracker whose callbacks are registered
\* handles every pointer event itself, so all of them are Dragging together
\* and Idle together.
C18_RegisteredDragTogether ==
    \A s \in DOMAIN sib :
        sib[s].registered => (sib[s].user_dragging <=> user_dragging)

\* one pointer drag has every tracker of the view Dragging
C18_Witness ==
    /\ user_dragging
    /\ mouse.dragging
    /\ \A s \in DOMAIN sib : sib[s].registered /\ sib[s].user_dragging
    /\ DraggingCount = MaxSiblings + 1

\* the record's tag is neither 'Arc' nor 'Spiral'
OtherTag(cv) == cv.Type \notin {"Arc", "Spiral"}

\* C19: update() on a record whose Type is neither 'Arc' nor 'Spiral' fails
\* fast: no new curve record is installed for it.
C19_OtherTagInstallsNothing ==
    [][(last' \in {"update", "update_again", "update_failed"} /\ OtherTag(curve))
          => curve' = curve]_vars

\* C19 as the code has it: update() solves every record that is not a spiral
\* as an arc of the record's Radius through the PI node and installs it,
\* whatever the tag; only a record without a Radius makes it fail.
C19_OtherTagSolvedAsArc ==
    [][(last' \in {"update", "update_again", "update_failed"} /\ OtherTag(curve))
          => IF curve.Radius = 0
             THEN last' = "update_failed" /\ curve' = curve
             ELSE /\ IsUpdate(last')
                  /\ curve' # curve
                  /\ curve'.Radius = curve.Radius
                  /\ curve'.PI = pi_nodes[1]
                  /\ curve'.Tangent > 0]_vars

\* update() has replaced a record of another type by a solved arc
C19_Witness ==
    /\ last = "update"
    /\ curve.Radius \in Radii
    /\ curve.Tangent > 0
    /\ curve.PI = pi_nodes[1]
    /\ ~OtherTag(curve)

\* C20: a spiral rebuild passes exactly one radius to the solver: EndRadius
\* exactly when the record's StartRadius is unset or infinite, and then the
\* solver's end point is the record's stored End; otherwise StartRadius, and
\* then the solver's start point is the record's stored Start.
C20_OneKnownRadius ==
    [][(IsUpdate(last') /\ curve.Type = "Spiral")
          => IF curve.StartRadius = 0 \/ curve.StartRadius = Inf
             THEN /\ asked'.EndRadius = curve.EndRadius
                  /\ asked'.StartRadius = 0
                  /\ asked'.End = curve.End
             ELSE /\ asked'.StartRadius = curve.StartRadius
                  /\ asked'.EndRadius = 0
                  /\ asked'.Start = curve.Start]_vars

\* a rebuild of a spiral with an infinite StartRadius, which the solver found
\* infeasible, has passed the EndRadius and the stored End alone
C20_Witness ==
    /\ IsUpdate(last)
    /\ curve.Type = "Spiral"
    /\ curve.StartRadius = Inf
    /\ asked.EndRadius \in Radii
    /\ asked.StartRadius = 0
    /\ asked.End = curve.End

\* the record's StartRadius is unset or infinite: the EndRadius is the known one
EndRadiusKnown(cv) == cv.StartRadius = 0 \/ cv.StartRadius = Inf

\* C21: in a spiral rebuild with EndRadius known the start point given to
\* the solver is the halfway point between the PI and the start node exactly
\* when the start node is not a chain end node, and the start node's own
\* position when it is one.
C21_StartHalvedUnlessEndNode ==
    [][(IsUpdate(last') /\ curve.Type = "Spiral" /\ EndRadiusKnown(curve))
          => asked'.Start.pos =
                IF pi_nodes[0].is_end_node
                THEN pi_nodes[0].pos
                ELSE HalfStart(pi_nodes[1], pi_nodes[0]).pos]_vars

\* C22: in a spiral rebuild with StartRadius known the end point given to
\* the solver is the halfway point between the PI and the end node exactly
\* when the end node is not a chain end node; only the end node's flag
\* decides.
C22_EndHalvedUnlessEndNode ==
    [][(IsUpdate(last') /\ curve.Type = "Spiral" /\ ~EndRadiusKnown(curve))
          => asked'.End.pos =
                IF pi_nodes[2].is_end_node
                THEN pi_nodes[2].pos
                ELSE HalfEnd(pi_nodes[1], pi_nodes[2]).pos]_vars

\* C23: an arc rebuild hands the arc solver the bearing of pi - start, the
\* bearing of end - pi, the PI node's position and the radius of the
\* installed record, and installs the solver's answer whatever it is; the
\* radius handed over is the same from update to update.
C23_ArcRebuild ==
    [][(IsUpdate(last') /\ curve.Type = "Arc")
          => /\ asked'.BearingIn = get_bearing(pi_nodes[1].pos - pi_nodes[0].pos)
             /\ asked'.BearingOut = get_bearing(pi_nodes[2].pos - pi_nodes[1].pos)
             /\ asked'.PI = pi_nodes[1]
             /\ asked'.Radius = curve.Radius
             /\ curve' = arc_get_parameters(asked')
             /\ IsUpdate(last) => asked'.Radius = asked.Radius]_vars

\* an arc has been rebuilt twice in a row, the second time with a tangent
\* that does not fit between the PI and an anchor
C23_Witness ==
    /\ last = "update_again"
    /\ curve.Type = "Arc"
    /\ asked.Radius \in Radii
    /\ curve = arc_get_parameters(asked)
    /\ ChainInfeasible

\* no curve of the chain carries the failing style
NoneMarked == \A i \in ChainIdx : ~MarkedFailing(i)

\* C24: an infeasibility is not sticky: every drag-move computes is_valid
\* and the styling anew, so after it is_valid is true and every curve has
\* the default style exactly when the chain of that sample is feasible,
\* whatever the samples before it found, and a button-up after a feasible
\* sample commits (the curve and the nodes stay as the drag left them).
C24_InfeasibilityNotSticky ==
    /\ [][(last' = "SoLocation2Event" /\ calls' = <<"on_drag">>)
            => /\ is_valid' <=> ~ChainInfeasible'
               /\ NoneMarked' <=> ~ChainInfeasible']_vars
    /\ [][(last' = "SoMouseButtonEvent" /\ calls' = <<"end_drag">>
              /\ last = "SoLocation2Event" /\ ~ChainInfeasible)
            => (curve' = curve /\ pi_nodes' = pi_nodes /\ is_valid')]_vars

\* C25: a drag that ends on two adjacent curves whose facing tangent lengths
\* sum to more than their PI distance never commits: both curves are marked
\* failing and the curve and the nodes equal the snapshot of the drag start.
C25_InfeasiblePairRollsBack ==
    (DragEnded /\ Len(checked) = 2 /\ PairExceeds(1))
        => /\ MarkedFailing(affected[1]) /\ MarkedFailing(affected[2])
           /\ curve = snap.curve
           /\ pi_nodes = snap.pi_nodes

\* C26: when the swap of the two picked triangles cannot be applied the
\* attempt leaves the surface's mesh with the content it had, a message is
\* reported and the command stays active for further picks.
C26_FailedSwapIsNoOp ==
    [][swap'.outcome = "unswappable"
          => /\ swap'.Mesh = swap.Mesh
             /\ swap'.message
             /\ swap'.registered # {}
             /\ swap'.FaceIndexes = <<>>]_vars

\* on a surface an earlier swap has changed, a pair of picks could not be
\* swapped
C26_Witness ==
    /\ swap.outcome = "unswappable"
    /\ swap.Mesh # StripMesh
    /\ \A f \in FacetIdx(swap.Mesh) : Cardinality(swap.Mesh[f]) = 3
    /\ swap.message
    /\ swap.registered # {}

\* C27: the drag handlers are called in the pattern (start_drag, on_drag*,
\* end_drag)*: start_drag only when no drag is open and it opens one,
\* on_drag only within an open drag, end_drag only on an open drag, which it
\* closes, and no other step opens or closes a drag.
C27_DragCallPattern ==
    [][/\ calls' = <<"start_drag">> => (~user_dragging /\ user_dragging')
       /\ calls' = <<"on_drag">> => (user_dragging /\ user_dragging')
       /\ calls' = <<"end_drag">> => (user_dragging /\ ~user_dragging')
       /\ user_dragging' # user_dragging
             => calls' \in {<<"start_drag">>, <<"end_drag">>}
       /\ Len(calls') <= 1]_vars

\* a drag that was started and had motion samples has been ended
C27_Witness ==
    /\ DragEnded
    /\ ~user_dragging
    /\ strained
    /\ snap.pi_nodes # pi_nodes

\* C28: during a drag-move the affected curve with chain index i is
\* re-solved from the Control Points i, i+1 and i+2; for the tracker's curve
\* (index 0) the solver is given the curve's dictionary built from the nodes
\* 0, 1 and 2 as the motion finds them.
C28_MotionSolvesFromOwnNodes ==
    [][(last' = "SoLocation2Event" /\ calls' = <<"on_drag">>)
          => asked' = IF curve.Type = "Spiral"
                      THEN spiral_input(curve, pi_nodes')
                      ELSE arc_input(curve, pi_nodes')]_vars

\* C29: once finalize() has run on a tracker, Dragging or not, no later
\* pointer event reaches it: no drag handler is called and the tracker's
\* drag flag and pointer state no longer change.
C29_NoInputAfterFinalize ==
    [][callbacks = {}
          => /\ calls' = <<>>
             /\ last' \notin {"SoLocation2Event", "SoMouseButtonEvent"}
             /\ UNCHANGED <<user_dragging, mouse, state>>]_vars

\* the tracker was finalized while Dragging and a later step has been taken
C29_Witness ==
    /\ callbacks = {}
    /\ view_cb = {}
    /\ user_dragging
    /\ mouse.dragging
    /\ last = "select"

\* the outcomes of an event that picked a face
FacePicked == {"picked", "swapped", "unswappable", "raised"}

\* C31: the list of picked face indices never holds more than two entries
\* and is empty after every swap attempt, successful or failed; a swap is
\* attempted exactly on every second face pick since activation, with the
\* two most recent picks.
C31_SwapOnEverySecondPick ==
    /\ Len(swap.FaceIndexes) <= 2
    /\ swap.attempted => swap.FaceIndexes = <<>>
    /\ swap.outcome \in FacePicked
          => /\ swap.attempted <=> swap.picks = 0
             /\ swap.attempted => swap.latest

\* C32: after an escape key press is handled by the Swap Edge or the Add
\* Point command, no callback registered by the command's Activated()
\* remains registered with the view, also after several activations.
C32_EscapeUnregistersAll ==
    /\ swap.outcome = "escape" => swap.registered = {}
    /\ addpt.outcome = "escape" => addpt.registered = {}

\* C33: after any sequence of load_file() calls the document holds at most
\* one image plane created by the task, and the plane the task refers to is
\* the most recently created one.
C33_OnePlane ==
    /\ Cardinality(splitter.doc) <= 1
    /\ splitter.plane = splitter.made
    /\ splitter.made > 0 => splitter.doc = {splitter.made}

\* a second and a third file were loaded
C33_Witness ==
    /\ splitter.made = MaxLoads
    /\ splitter.doc = {MaxLoads}
    /\ splitter.last = "load_file"

\* C34: after finish(), reached through accept, reject, clean_up or the
\* escape key handler, both input callbacks of the constructor are
\* unregistered and the callback table is empty; a repeated finish()
\* unregisters nothing a second time.
C34_FinishOnce ==
    /\ [](splitter.last \in FinishVia
             => (splitter.view = {} /\ splitter.callbacks = {}))
    /\ [](\A t \in InitCallbacks : splitter.removed[t] <= 1)
    /\ [][(splitter.callbacks = {} /\ splitter'.last \in FinishVia)
             => /\ splitter'.view = splitter.view
                /\ splitter'.removed = splitter.removed
                /\ splitter'.callbacks = {}]_vars

\* finish() ran a second time, by the escape key after accept
C34_Witness ==
    /\ splitter.last = "escape"
    /\ splitter.callbacks = {}
    /\ splitter.view = {}
    /\ \A t \in InitCallbacks : splitter.removed[t] = 1
    /\ splitter.made > 0

\* every edit tracker in the list is live, every other one the wire
\* created was finalized once
FinalizedOnce ==
    \A k \in DOMAIN wire.ends :
        wire.ends[k] = IF k \in Range(wire.edit_trackers) THEN 0 ELSE 1

\* C35: after any sequence of update(), update_points() and finalize()
\* calls the number of live edit trackers equals the number of points of
\* the last non-empty update (zero after finalize), and every edit tracker
\* created by an earlier update has been finalized exactly once.
C35_LiveAsLastNonEmpty ==
    /\ Len(wire.edit_trackers) = wire.nonempty
    /\ FinalizedOnce

\* C35 as the code has it: the number of live edit trackers equals the
\* number of points of the last update() with a non-empty list or of the
\* last update_points() call, empty or not (zero after finalize), and every
\* edit tracker created by an earlier update has been finalized exactly once.
C35_LiveAsLastRebuild ==
    /\ Len(wire.edit_trackers) = wire.rebuilt
    /\ Len(wire.edit_trackers) = Cardinality(Range(wire.edit_trackers))
    /\ FinalizedOnce

\* two points replaced one after the wire was finalized and updated again
C35_Witness ==
    /\ wire.last = "update"
    /\ ~wire.attached
    /\ Len(wire.edit_trackers) = 2
    /\ Len(wire.ends) >= 5
    /\ wire.numVertices = 2

\* a call without a coordinate: None, an empty tuple or an empty list
NoCoordinate(arg) ==
    \/ arg.form = "None"
    \/ arg.form = "one" /\ arg.coords[1].items = <<>>
    \/ arg.form = "list" /\ arg.coords = <<>>

\* C36: after every update() call drag_point equals point; a call with no
\* coordinate (None or empty) keeps the previous point, and a call with a
\* list of coordinates sets the point to the first element of the list (to
\* the tuple of it when the element is a list).
C36_PointFollowsUpdate ==
    /\ marker.drag_point = marker.point
    /\ marker.last \in {"update", "update_raised"}
          => /\ NoCoordinate(marker.given) => marker.point = marker.before
             /\ \A v \in PyValues :
                   ( /\ marker.given.form = "list"
                     /\ marker.given.coords # <<>>
                     /\ marker.given.coords[1] = v
                     /\ ~Falsy(v) )
                      => /\ marker.point = as_tuple(v)
                         /\ v.kind = "tuple" => marker.point = v

\* a list of two different coordinates moved the marker to the first
C36_Witness ==
    /\ marker.last = "update"
    /\ marker.given.form = "list"
    /\ Len(marker.given.coords) = 2
    /\ marker.given.coords[1] = [kind |-> "tuple", items |-> <<2>>]
    /\ marker.given.coords[2] = [kind |-> "tuple", items |-> <<4>>]
    /\ marker.before = [kind |-> "tuple", items |-> <<0>>]
    /\ marker.point = [kind |-> "tuple", items |-> <<2>>]
    /\ marker.coordinate = <<marker.point>>

=============================================================================
